---- MODULE Spec2Model ----
(***************************************************************************)
(* Stock/price synchronisation of a supplier feed into two marketplaces:   *)
(* src/seller.py (Ozon) and src/market.py (Yandex Market).                 *)
(*                                                                         *)
(* Python values are modelled as tagged records: a str is                  *)
(* [t |-> "str", v |-> <<characters>>] and an int is [t |-> "int", v |-> n]*)
(* so that str() and int() are real conversions.  A Python list is a       *)
(* sequence; a list object shared between caller and callee is a variable. *)
(***************************************************************************)
EXTENDS Integers, Sequences, FiniteSets, TLC

VARIABLES
    module,          \* which file's code runs: "seller" or "market"
    pc,              \* position of the running program
    watch_remnants,  \* the feed: list of dicts; keys transliterated: Kod, Kolichestvo, Tsena
    offer_ids,       \* the caller's list object holding the catalog
    catalog0,        \* ghost: contents of offer_ids when the caller obtained it
    calls,           \* ghost: reconciliation calls made so far, with their results
    now,             \* the UTC clock read by datetime.datetime.utcnow()
    lst,             \* divide: the list given to the generator
    n,               \* divide: the chunk size given to the generator
    gen,             \* divide: the generator object's state
    chunks,          \* divide: the chunks the generator has yielded so far
    entry,           \* the function the run entered: "main", "get_offer_ids", ...
    server,          \* per campaign, the pages its listing endpoint serves
    supplier,        \* the feed published at the supplier's site
    campaign,        \* the campaign (target account) being worked on
    page,            \* get_offer_ids: last_id (seller.py) / page (market.py)
    product_list,    \* get_offer_ids: product_list
    total,           \* get_offer_ids: total of the last response (seller.py)
    requests,        \* ghost: page requests issued by the running get_offer_ids
    fetched,         \* ghost: the catalogs get_offer_ids returned, per campaign
    stocks,          \* main: stocks
    prices,          \* main: prices
    batches,         \* main: the chunks of list(divide(...)) not yet submitted
    sent,            \* the submission calls the marketplaces received
    failed,          \* ghost: the exception raised in the run and the position it was raised at
    printed,         \* what main printed
    outcome          \* how the entered function ended: "running", "returned", "raised"

reconcileVars == <<watch_remnants, offer_ids, catalog0, calls, now>>
divideVars == <<lst, n, gen, chunks>>
fetchVars == <<server, campaign, page, product_list, total, requests, fetched>>
mainVars == <<supplier, stocks, prices, batches, sent, failed, printed, outcome>>

vars == <<module, pc, entry, watch_remnants, offer_ids, catalog0, calls, now,
          lst, n, gen, chunks, server, supplier, campaign, page, product_list,
          total, requests, fetched, stocks, prices, batches, sent, failed,
          printed, outcome>>

-----------------------------------------------------------------------------
(* Bounds of the model *)

MaxFeed == 2
MaxCatalog == 2
MaxClock == 1
MaxLen == 4
MaxN == 3
MaxPages == 2

-----------------------------------------------------------------------------
(* Python values *)

PyStr(s) == [t |-> "str", v |-> s]
PyInt(i) == [t |-> "int", v |-> i]
PyNone == [t |-> "None", v |-> <<>>]

\* truth value of a str or None: "not page" is its negation
Truthy(x) == x.t = "str" /\ x.v # <<>>

Digits == <<"0", "1", "2", "3", "4", "5", "6", "7", "8", "9">>

IsDigit(c) == \E d \in 1..Len(Digits) : Digits[d] = c

DigitVal(c) == (CHOOSE d \in 1..Len(Digits) : Digits[d] = c) - 1

RECURSIVE Decimal(_)
Decimal(k) ==
    IF k < Len(Digits) THEN <<Digits[k + 1]>>
    ELSE Decimal(k \div Len(Digits)) \o <<Digits[(k % Len(Digits)) + 1]>>

\* str(x): the decimal digits of an int, a str unchanged
str(x) == IF x.t = "int" THEN Decimal(x.v) ELSE x.v

RECURSIVE DigitsValue(_)
DigitsValue(s) ==
    IF s = <<>> THEN 0
    ELSE DigitsValue(SubSeq(s, 1, Len(s) - 1)) * Len(Digits) + DigitVal(s[Len(s)])

\* int(x): an int unchanged; a str of decimal digits parsed; ValueError for
\* any other str of the alphabet used here (no sign, blank or underscore)
int(x) ==
    IF x.t = "int" THEN [raised |-> "", value |-> x.v]
    ELSE IF x.v # <<>> /\ \A i \in 1..Len(x.v) : IsDigit(x.v[i])
         THEN [raised |-> "", value |-> DigitsValue(x.v)]
         ELSE [raised |-> "ValueError", value |-> 0]

\* x in xs
In(x, xs) == \E i \in 1..Len(xs) : xs[i] = x

\* xs.remove(x), x in xs: drops the first occurrence
ListRemove(xs, x) ==
    LET i == CHOOSE k \in 1..Len(xs) : xs[k] = x /\ \A j \in 1..(k - 1) : xs[j] # x
    IN  SubSeq(xs, 1, i - 1) \o SubSeq(xs, i + 1, Len(xs))

-----------------------------------------------------------------------------
(* price_conversion *)

\* price.split(".")[0]: the text before the first "."
BeforeDot(s) ==
    IF \E i \in 1..Len(s) : s[i] = "."
    THEN SubSeq(s, 1, (CHOOSE i \in 1..Len(s) : s[i] = "." /\ \A j \in 1..(i - 1) : s[j] # ".") - 1)
    ELSE s

\* re.sub("[^0-9]", "", s)
OnlyDigits(s) == SelectSeq(s, IsDigit)

price_conversion(price) == OnlyDigits(BeforeDot(price))

-----------------------------------------------------------------------------
(* create_stocks *)

MoreThanTen == <<">", "1", "0">>
One == <<"1">>

\* faulty variant: ">10" taken as ten
StockOfTen(watch) ==
    LET count == str(watch.Kolichestvo)
    IN  IF count = MoreThanTen THEN [raised |-> "", value |-> 10]
        ELSE IF count = One THEN [raised |-> "", value |-> 0]
        ELSE int(watch.Kolichestvo)

\* the if / elif / else on count: result of int() kept with its error
StockOf(watch) ==
    LET count == str(watch.Kolichestvo)
    IN  IF count = MoreThanTen THEN [raised |-> "", value |-> 100]
        ELSE IF count = One THEN [raised |-> "", value |-> 0]
        ELSE int(watch.Kolichestvo)

\* one element of the result list
StockEntry(m, offer_id, stock, warehouse_id, date) ==
    IF m = "seller" THEN [offer_id |-> offer_id, stock |-> stock]
    ELSE [sku |-> offer_id, warehouseId |-> warehouse_id,
          items |-> <<[count |-> stock, type |-> "FIT", updatedAt |-> date]>>]

\* faulty variant: the second loop left out
ZeroFillNone(m, ids, warehouse_id, date) == <<>>

\* the second loop: one zero entry per id still in the list
ZeroFill(m, ids, warehouse_id, date) ==
    [i \in 1..Len(ids) |-> StockEntry(m, ids[i], 0, warehouse_id, date)]

\* faulty variant: the matched id is not removed
AfterMatchKeep(ids, code) == ids

\* the list after the first loop's offer_ids.remove(...)
AfterMatch(ids, code) == ListRemove(ids, code)

\* the first loop from record k on: acc is stocks, ids is the list object
RECURSIVE MatchLoop(_, _, _, _, _, _, _)
MatchLoop(m, feed, k, acc, ids, warehouse_id, date) ==
    IF k > Len(feed) THEN [raised |-> "", stocks |-> acc, offer_ids |-> ids]
    ELSE LET watch == feed[k]
             code == str(watch.Kod)
         IN  IF In(code, ids)
             THEN LET s == StockOf(watch)
                  IN  IF s.raised # ""
                      THEN [raised |-> s.raised, stocks |-> acc, offer_ids |-> ids]
                      ELSE MatchLoop(m, feed, k + 1,
                                     Append(acc, StockEntry(m, code, s.value, warehouse_id, date)),
                                     AfterMatch(ids, code), warehouse_id, date)
             ELSE MatchLoop(m, feed, k + 1, acc, ids, warehouse_id, date)

\* create_stocks(watch_remnants, offer_ids[, warehouse_id]) reading the clock as
\* date: the returned list (or the exception) and the list object afterwards
create_stocks(m, feed, ids, warehouse_id, date) ==
    LET r == MatchLoop(m, feed, 1, <<>>, ids, warehouse_id, date)
    IN  IF r.raised # "" THEN [raised |-> r.raised, value |-> <<>>, offer_ids |-> r.offer_ids]
        ELSE [raised |-> "",
              value |-> r.stocks \o ZeroFill(m, r.offer_ids, warehouse_id, date),
              offer_ids |-> r.offer_ids]

-----------------------------------------------------------------------------
(* create_prices *)

\* the dict built for one matched record; market.py applies int() to the price
PriceEntry(m, watch) ==
    IF m = "seller"
    THEN [raised |-> "",
          value |-> [auto_action_enabled |-> "UNKNOWN", currency_code |-> "RUB",
                     offer_id |-> str(watch.Kod), old_price |-> "0",
                     price |-> price_conversion(watch.Tsena.v)]]
    ELSE LET p == int(PyStr(price_conversion(watch.Tsena.v)))
         IN  [raised |-> p.raised,
              value |-> [id |-> str(watch.Kod),
                         price |-> [value |-> p.value, currencyId |-> "RUR"]]]

PriceMatches(watch, ids) == In(str(watch.Kod), ids)

\* the records the if of the loop lets through, in feed order
MatchedRecords(feed, ids) == SelectSeq(feed, LAMBDA watch : PriceMatches(watch, ids))

\* the for loop, without recursion so that a feed of a thousand records can be
\* evaluated: the dicts of the matched records in feed order, or the exception
\* of the first matched record whose dict cannot be built
PriceLoop(m, feed, ids) ==
    LET matched == MatchedRecords(feed, ids)
        entries == [k \in 1..Len(matched) |-> PriceEntry(m, matched[k])]
        bad == {k \in 1..Len(matched) : entries[k].raised # ""}
    IN  IF bad # {}
        THEN [raised |-> entries[CHOOSE k \in bad : \A j \in bad : k <= j].raised,
              value |-> <<>>]
        ELSE [raised |-> "", value |-> [k \in 1..Len(matched) |-> entries[k].value]]

create_prices(m, feed, ids) == PriceLoop(m, feed, ids)

-----------------------------------------------------------------------------
(* divide *)

\* range(start, stop, step) as a list; ValueError when step is zero
range(start, stop, step) ==
    IF step = 0 THEN [raised |-> "ValueError", value |-> <<>>]
    ELSE LET span == IF step > 0 THEN stop - start ELSE start - stop
             size == IF step > 0 THEN step ELSE 0 - step
             count == IF span <= 0 THEN 0 ELSE (span + size - 1) \div size
         IN  [raised |-> "", value |-> [k \in 1..count |-> start + (k - 1) * step]]

\* l[i:j] for 0 <= i <= j: the slice is cut at the end of the list
Slice(l, i, j) == SubSeq(l, i + 1, IF j < Len(l) THEN j ELSE Len(l))

\* faulty variant: the slice one element short
DivideChunkShort(l, i, size) == Slice(l, i, i + size - 1)

\* the value yielded for loop index i
DivideChunk(l, i, size) == Slice(l, i, i + size)

\* the loop indices of divide(l, size), computed at the first next()
DivideIndices(l, size) == range(0, Len(l), size)

\* list(divide(l, size))
ListDivide(l, size) ==
    LET r == DivideIndices(l, size)
    IN  [raised |-> r.raised,
         value |-> [k \in 1..Len(r.value) |-> DivideChunk(l, r.value[k], size)]]

-----------------------------------------------------------------------------
(* get_product_list and get_offer_ids *)


RECURSIVE Flatten(_)
Flatten(ss) == IF ss = <<>> THEN <<>> ELSE Head(ss) \o Flatten(Tail(ss))

\* one product of a response, as each API shapes it
Product(m, id) == IF m = "seller" THEN [offer_id |-> id] ELSE [offer |-> [shopSku |-> id]]

\* the page a cursor stands for: "" is the first, a token names its page
PageIndex(cursor) == IF cursor.v = <<>> THEN 1 ELSE DigitsValue(cursor.v)

\* what the last page of a token-paginated listing carries as nextPageToken
EndTokens(m) == IF m = "seller" THEN {PyNone} ELSE {PyNone, PyStr(<<>>)}

\* get_product_list(cursor, ...) answered by a listing endpoint serving the
\* pages of listing: the "result" object of the response
get_product_list(m, listing, cursor, end) ==
    LET k == PageIndex(cursor)
        ids == IF k <= Len(listing) THEN listing[k] ELSE <<>>
        items == [i \in 1..Len(ids) |-> Product(m, ids[i])]
    IN  IF m = "seller"
        THEN [items |-> items, total |-> Len(Flatten(listing)),
              last_id |-> PyStr(Decimal(k + 1))]
        ELSE [offerMappingEntries |-> items,
              paging |-> [nextPageToken |-> IF k < Len(listing) THEN PyStr(Decimal(k + 1))
                                            ELSE end]]

ResultItems(m, some_prod) == IF m = "seller" THEN some_prod.items ELSE some_prod.offerMappingEntries
ResultTotal(m, some_prod) == IF m = "seller" THEN some_prod.total ELSE 0
ResultCursor(m, some_prod) == IF m = "seller" THEN some_prod.last_id ELSE some_prod.paging.nextPageToken

\* faulty variant: the break condition inverted
StopFetchingInverted(m, tot, count, cursor) == IF m = "seller" THEN tot # count ELSE Truthy(cursor)

\* the break condition of the while True loop
StopFetching(m, tot, count, cursor) == IF m = "seller" THEN tot = count ELSE ~Truthy(cursor)

\* the final loop: the offer id of every product collected
OfferIdsOf(m, pl) ==
    [i \in 1..Len(pl) |-> IF m = "seller" THEN pl[i].offer_id ELSE pl[i].offer.shopSku]

-----------------------------------------------------------------------------
(* The try / except of main *)

Failures == {"ReadTimeout", "ConnectionError", "HTTPError"}

NoFailure == [exc |-> "", at |-> ""]

\* faulty variant: connection failures are not caught
ExceptClauseNoConnection(exc) ==
    IF exc = "ReadTimeout" THEN [caught |-> TRUE, message |-> "timeout"]
    ELSE IF exc = "ConnectionError" THEN [caught |-> FALSE, message |-> ""]
    ELSE [caught |-> TRUE, message |-> "ERROR_2"]

\* the clause that handles exc and what it prints
ExceptClause(exc) ==
    IF exc = "ReadTimeout" THEN [caught |-> TRUE, message |-> "timeout"]
    ELSE IF exc = "ConnectionError" THEN [caught |-> TRUE, message |-> "connection error"]
    ELSE [caught |-> TRUE, message |-> "ERROR_2"]

\* exc raised at the current position: inside main's try it is handled by a
\* clause and main returns; anywhere else it reaches the caller
Raise(exc, in_try) ==
    /\ failed' = [exc |-> exc, at |-> pc]
    /\ pc' = "done"
    /\ IF entry = "main" /\ in_try /\ ExceptClause(exc).caught
       THEN /\ printed' = Append(printed, ExceptClause(exc).message)
            /\ outcome' = "returned"
       ELSE /\ printed' = printed
            /\ outcome' = "raised"

-----------------------------------------------------------------------------
(* Inputs *)

Modules == {"seller", "market"}

SeqsUpTo(S, max) == UNION {[1..k -> S] : k \in 0..max}

\* offer ids as the listings serve them
CatalogIds == {<<"7">>, <<"A">>}

\* the feed's codes: a numeric cell, a listed text code, an unlisted one
FeedCodes == {PyInt(7), PyStr(<<"A">>), PyStr(<<"Z">>)}

Quantities == {PyStr(MoreThanTen), PyStr(One), PyStr(<<"1", "2">>)}

PlainPrice == PyStr(<<"1", "'", "9", ".", "5", "0">>)
NoDigitPrice == PyStr(<<"x", ".", "5">>)

\* rows varying code and quantity, and a row with a numeric quantity cell and a
\* price without digits
FeedRows ==
    {[Kod |-> c, Kolichestvo |-> q, Tsena |-> PlainPrice] : c \in FeedCodes, q \in Quantities}
    \cup {[Kod |-> PyStr(<<"A">>), Kolichestvo |-> PyInt(3), Tsena |-> NoDigitPrice]}

Feeds == SeqsUpTo(FeedRows, MaxFeed)

\* lists of offer ids, repeated ids included
Catalogs == SeqsUpTo(CatalogIds, MaxCatalog)

WarehouseId == "warehouse"

-----------------------------------------------------------------------------
(* Reconciliation called directly: a caller holding a feed and a catalog list *)
(* calls create_stocks and create_prices on them, twice each, a run being one *)
(* call of each in either order.                                              *)

Reconcilers == {"create_stocks", "create_prices"}

\* the calls of the run in progress
RunCalls == SubSeq(calls, Len(calls) - (Len(calls) % Cardinality(Reconcilers)) + 1, Len(calls))

CanCall(fn) ==
    /\ pc = "reconcile"
    /\ Len(calls) < 2 * Cardinality(Reconcilers)
    /\ \A i \in 1..Len(RunCalls) : RunCalls[i].fn # fn

\* utcnow(): the clock never runs backwards
ClockReads == now..MaxClock

IdleDivide == lst = <<>> /\ n = 1 /\ gen = "none" /\ chunks = <<>>

IdleFetch ==
    /\ server = <<>> /\ campaign = "" /\ page = PyStr(<<>>) /\ product_list = <<>>
    /\ total = 0 /\ requests = 0 /\ fetched = <<>>

IdleMain ==
    /\ supplier = <<>> /\ stocks = <<>> /\ prices = <<>> /\ batches = <<>>
    /\ sent = <<>> /\ failed = NoFailure /\ printed = <<>> /\ outcome = "running"

InitReconcile ==
    /\ IdleDivide /\ IdleFetch /\ IdleMain
    /\ entry = "reconcile"
    /\ module \in Modules
    /\ pc = "reconcile"
    /\ watch_remnants \in Feeds
    /\ offer_ids \in Catalogs
    /\ catalog0 = offer_ids
    /\ calls = <<>>
    /\ now = 0

CallCreateStocks ==
    /\ CanCall("create_stocks")
    /\ \E date \in IF module = "market" THEN ClockReads ELSE {now} :
         LET r == create_stocks(module, watch_remnants, offer_ids, WarehouseId, date)
         IN  /\ now' = date
             /\ offer_ids' = r.offer_ids
             /\ calls' = Append(calls, [fn |-> "create_stocks", arg |-> offer_ids,
                                        raised |-> r.raised, value |-> r.value])
    /\ UNCHANGED <<module, pc, entry, watch_remnants, catalog0>>
    /\ UNCHANGED <<divideVars, fetchVars, mainVars>>

CallCreatePrices ==
    /\ CanCall("create_prices")
    /\ LET r == create_prices(module, watch_remnants, offer_ids)
       IN  calls' = Append(calls, [fn |-> "create_prices", arg |-> offer_ids,
                                   raised |-> r.raised, value |-> r.value])
    /\ UNCHANGED <<module, pc, entry, watch_remnants, offer_ids, catalog0, now>>
    /\ UNCHANGED <<divideVars, fetchVars, mainVars>>

NextReconcile == CallCreateStocks \/ CallCreatePrices

SpecReconcile == InitReconcile /\ [][NextReconcile]_vars

-----------------------------------------------------------------------------
(* The generator divide(lst, n) driven by a consumer calling next() on it *)

Items == {"a", "b"}

IdleReconcile ==
    /\ watch_remnants = <<>> /\ offer_ids = <<>> /\ catalog0 = <<>>
    /\ calls = <<>> /\ now = 0

InitDivide ==
    /\ IdleReconcile /\ IdleFetch /\ IdleMain
    /\ entry = "divide"
    /\ module = "seller"
    /\ pc = "divide"
    /\ lst \in SeqsUpTo(Items, MaxLen)
    /\ n \in (0 - MaxN)..MaxN
    /\ gen = "created"
    /\ chunks = <<>>

\* next(): the first one evaluates range(...), each one runs the loop to its
\* next yield or to its end
DivideNext ==
    /\ pc = "divide"
    /\ gen \in {"created", "suspended"}
    /\ LET r == DivideIndices(lst, n)
       IN  IF r.raised # ""
           THEN gen' = r.raised /\ chunks' = chunks
           ELSE IF Len(chunks) < Len(r.value)
                THEN /\ gen' = "suspended"
                     /\ chunks' = Append(chunks, DivideChunk(lst, r.value[Len(chunks) + 1], n))
                ELSE gen' = "finished" /\ chunks' = chunks
    /\ UNCHANGED <<module, pc, entry, lst, n>>
    /\ UNCHANGED <<reconcileVars, fetchVars, mainVars>>

NextDivide == DivideNext

SpecDivide == InitDivide /\ [][NextDivide]_vars

-----------------------------------------------------------------------------
(* get_offer_ids called on its own against a listing *)

Campaigns(m) == IF m = "seller" THEN <<"ozon">> ELSE <<"fbs", "dbs">>

Pages == SeqsUpTo(CatalogIds, MaxCatalog)

Listings == SeqsUpTo(Pages, MaxPages) \ {<<>>}

\* where the run goes on once get_offer_ids has returned
AfterFetch ==
    IF entry = "get_offer_ids" THEN "done"
    ELSE IF entry = "upload_prices" THEN "create_prices"
    ELSE IF entry = "upload_stocks" THEN "create_stocks"
    ELSE IF module = "seller" THEN "download_stock" ELSE "create_stocks"

InitFetch ==
    /\ IdleReconcile /\ IdleDivide /\ IdleMain
    /\ entry = "get_offer_ids"
    /\ module \in Modules
    /\ pc = "get_offer_ids"
    /\ campaign = Campaigns(module)[1]
    /\ \E listing \in Listings : server = [c \in {campaign} |-> listing]
    /\ page = PyStr(<<>>)
    /\ product_list = <<>>
    /\ total = 0
    /\ requests = 0
    /\ fetched = <<>>

\* one turn of the while True loop whose request succeeds; the turn that
\* breaks also builds offer_ids and returns
GetProductList ==
    /\ pc = "get_offer_ids"
    /\ requests < MaxPages + 2
    /\ \E end \in EndTokens(module) :
         LET some_prod == get_product_list(module, server[campaign], page, end)
             pl == product_list \o ResultItems(module, some_prod)
         IN  /\ requests' = requests + 1
             /\ total' = ResultTotal(module, some_prod)
             /\ page' = ResultCursor(module, some_prod)
             /\ IF StopFetching(module, total', Len(pl), page')
                THEN /\ offer_ids' = OfferIdsOf(module, pl)
                     /\ product_list' = <<>>
                     /\ fetched' = Append(fetched, [campaign |-> campaign, catalog |-> offer_ids'])
                     /\ pc' = AfterFetch
                     /\ outcome' = IF entry = "get_offer_ids" THEN "returned" ELSE outcome
                ELSE /\ product_list' = pl
                     /\ UNCHANGED <<offer_ids, fetched, pc, outcome>>
    /\ UNCHANGED <<module, entry, watch_remnants, catalog0, calls, now, server, campaign>>
    /\ UNCHANGED <<supplier, stocks, prices, batches, sent, failed, printed>>
    /\ UNCHANGED divideVars

\* a page request that raises: requests.post / raise_for_status
RequestFails ==
    /\ pc = "get_offer_ids"
    /\ requests < MaxPages + 2
    /\ requests' = requests + 1
    /\ \E exc \in Failures : Raise(exc, TRUE)
    /\ UNCHANGED <<module, entry, server, campaign, page, product_list, total, fetched>>
    /\ UNCHANGED <<supplier, stocks, prices, batches, sent>>
    /\ UNCHANGED <<reconcileVars, divideVars>>

NextFetch == GetProductList \/ RequestFails

SpecFetch == InitFetch /\ [][NextFetch]_vars

\* requests are answered, or fail, as long as the fetch is running
SpecFetchFair == SpecFetch /\ WF_vars(NextFetch)

-----------------------------------------------------------------------------
(* main of seller.py and of market.py *)

SellerStockBatch == 100
SellerPriceBatch == 900
MarketStockBatch == 2000

StockBatch(m) == IF m = "seller" THEN SellerStockBatch ELSE MarketStockBatch

\* warehouse_fbs_id and warehouse_dbs_id of the environment
Warehouse(c) == IF c = "fbs" THEN "warehouse_fbs" ELSE IF c = "dbs" THEN "warehouse_dbs" ELSE ""

\* a one-page listing one offer longer than a stock batch of seller.py
BulkListing == <<[k \in 1..(SellerStockBatch + 1) |-> Decimal(1000 + k)]>>

\* listings in one page, in two pages, with a repeated offer, and for
\* seller.py one that needs two stock batches
MainListings(m) ==
    {<<<<<<"7">>, <<"A">>>>>>, <<<<<<"A">>>>, <<<<"7">>>>>>, <<<<<<"A">>, <<"A">>>>>>}
    \cup (IF m = "seller" THEN {BulkListing} ELSE {})

MainRows ==
    {[Kod |-> PyInt(7), Kolichestvo |-> PyStr(MoreThanTen), Tsena |-> PlainPrice],
     [Kod |-> PyStr(<<"A">>), Kolichestvo |-> PyStr(<<"1", "2">>), Tsena |-> PlainPrice],
     [Kod |-> PyStr(<<"Z">>), Kolichestvo |-> PyStr(One), Tsena |-> PlainPrice]}

MainFeeds == SeqsUpTo(MainRows, MaxFeed)

\* seller.py enters its try with get_offer_ids; market.py downloads the feed
\* before its try
Init ==
    /\ IdleDivide
    /\ entry = "main"
    /\ module \in Modules
    /\ pc = IF module = "seller" THEN "get_offer_ids" ELSE "download_stock"
    /\ campaign = Campaigns(module)[1]
    /\ server \in [{Campaigns(module)[i] : i \in 1..Len(Campaigns(module))} -> MainListings(module)]
    /\ supplier \in MainFeeds
    /\ watch_remnants = <<>> /\ offer_ids = <<>> /\ catalog0 = <<>> /\ calls = <<>>
    /\ now = 0
    /\ page = PyStr(<<>>) /\ product_list = <<>> /\ total = 0 /\ requests = 0
    /\ fetched = <<>>
    /\ stocks = <<>> /\ prices = <<>> /\ batches = <<>>
    /\ sent = <<>> /\ failed = NoFailure /\ printed = <<>> /\ outcome = "running"

\* watch_remnants = download_stock()
DownloadStock ==
    /\ pc = "download_stock"
    /\ watch_remnants' = supplier
    /\ pc' = IF module = "seller" THEN "create_stocks" ELSE "get_offer_ids"
    /\ UNCHANGED <<module, entry, offer_ids, catalog0, calls, now>>
    /\ UNCHANGED <<divideVars, fetchVars, mainVars>>

\* download_stock() raising: inside the try in seller.py, before it in market.py
DownloadFails ==
    /\ pc = "download_stock"
    /\ \E exc \in Failures : Raise(exc, module = "seller")
    /\ UNCHANGED <<module, entry, supplier, stocks, prices, batches, sent>>
    /\ UNCHANGED <<reconcileVars, divideVars, fetchVars>>

\* where main, or upload_stocks, goes on once the stock batches are submitted
AfterStocks ==
    IF entry = "upload_stocks" THEN "not_empty"
    ELSE IF module = "seller" THEN "create_prices" ELSE "upload_prices"

\* stocks = create_stocks(watch_remnants, offer_ids[, warehouse_id]) and the
\* list(divide(stocks, ...)) of the for statement that follows
MainCreateStocks ==
    /\ pc = "create_stocks"
    /\ \E date \in IF module = "market" THEN ClockReads ELSE {now} :
         LET r == create_stocks(module, watch_remnants, offer_ids, Warehouse(campaign), date)
             d == ListDivide(r.value, StockBatch(module))
         IN  /\ now' = date
             /\ offer_ids' = r.offer_ids
             /\ IF r.raised # ""
                THEN /\ Raise(r.raised, TRUE)
                     /\ UNCHANGED <<stocks, batches>>
                ELSE /\ stocks' = r.value
                     /\ batches' = d.value
                     /\ pc' = IF d.value = <<>> THEN AfterStocks ELSE "update_stocks"
                     /\ UNCHANGED <<failed, printed, outcome>>
    /\ UNCHANGED <<module, entry, watch_remnants, catalog0, calls, supplier, prices, sent>>
    /\ UNCHANGED <<divideVars, fetchVars>>

\* update_stocks(some_stock, ...) answered with success
UpdateStocks ==
    /\ pc = "update_stocks"
    /\ sent' = Append(sent, [call |-> "update_stocks", campaign |-> campaign, batch |-> Head(batches)])
    /\ batches' = Tail(batches)
    /\ pc' = IF Tail(batches) = <<>> THEN AfterStocks ELSE pc
    /\ UNCHANGED <<module, entry, supplier, stocks, prices, failed, printed, outcome>>
    /\ UNCHANGED <<reconcileVars, divideVars, fetchVars>>

\* seller.py: prices = create_prices(watch_remnants, offer_ids) and the
\* list(divide(prices, 900)) of the for statement; main returns when there is
\* nothing to submit
MainCreatePrices ==
    /\ pc = "create_prices"
    /\ LET r == create_prices(module, watch_remnants, offer_ids)
           d == ListDivide(r.value, SellerPriceBatch)
       IN  IF r.raised # ""
           THEN /\ Raise(r.raised, TRUE)
                /\ UNCHANGED <<prices, batches>>
           ELSE /\ prices' = r.value
                /\ batches' = d.value
                /\ pc' = IF d.value = <<>> THEN "done" ELSE "update_price"
                /\ outcome' = IF d.value = <<>> THEN "returned" ELSE outcome
                /\ UNCHANGED <<failed, printed>>
    /\ UNCHANGED <<module, entry, supplier, stocks, sent>>
    /\ UNCHANGED <<reconcileVars, divideVars, fetchVars>>

\* update_price(some_price, ...) answered with success
UpdatePrice ==
    /\ pc = "update_price"
    /\ sent' = Append(sent, [call |-> "update_price", campaign |-> campaign, batch |-> Head(batches)])
    /\ batches' = Tail(batches)
    /\ pc' = IF Tail(batches) = <<>> THEN "done" ELSE pc
    /\ outcome' = IF Tail(batches) = <<>> THEN "returned" ELSE outcome
    /\ UNCHANGED <<module, entry, supplier, stocks, prices, failed, printed>>
    /\ UNCHANGED <<reconcileVars, divideVars, fetchVars>>

\* update_stocks or update_price raising
SubmissionFails ==
    /\ pc \in {"update_stocks", "update_price"}
    /\ \E exc \in Failures : Raise(exc, TRUE)
    /\ UNCHANGED <<module, entry, supplier, stocks, prices, batches, sent>>
    /\ UNCHANGED <<reconcileVars, divideVars, fetchVars>>

\* market.py: upload_prices(watch_remnants, campaign_id, market_token) is an
\* async def called without await: the call builds a coroutine object that is
\* dropped, and no line of upload_prices runs.  main goes on to the next
\* campaign, or returns after the last.
UploadPricesNotAwaited ==
    /\ pc = "upload_prices"
    /\ IF campaign = Campaigns(module)[1]
       THEN /\ campaign' = Campaigns(module)[2]
            /\ pc' = "get_offer_ids"
            /\ page' = PyStr(<<>>) /\ product_list' = <<>> /\ requests' = 0
            /\ UNCHANGED outcome
       ELSE /\ pc' = "done"
            /\ outcome' = "returned"
            /\ UNCHANGED <<campaign, page, product_list, requests>>
    /\ UNCHANGED <<module, entry, server, total, fetched>>
    /\ UNCHANGED <<supplier, stocks, prices, batches, sent, failed, printed>>
    /\ UNCHANGED <<reconcileVars, divideVars>>

Next ==
    \/ GetProductList
    \/ RequestFails
    \/ DownloadStock
    \/ DownloadFails
    \/ MainCreateStocks
    \/ UpdateStocks
    \/ MainCreatePrices
    \/ UpdatePrice
    \/ SubmissionFails
    \/ UploadPricesNotAwaited

Spec == Init /\ [][Next]_vars

-----------------------------------------------------------------------------
(* upload_prices and upload_stocks of seller.py and of market.py, each run to
   its end by a caller that awaits it *)

SellerUploadPriceBatch == 1000
SellerUploadStockBatch == 100
MarketUploadPriceBatch == 500
MarketUploadStockBatch == 2000

UploadPriceBatch(m) == IF m = "seller" THEN SellerUploadPriceBatch ELSE MarketUploadPriceBatch
UploadStockBatch(m) == IF m = "seller" THEN SellerUploadStockBatch ELSE MarketUploadStockBatch

Uploads == {"upload_prices", "upload_stocks"}

\* one offer more than the price batch of seller.py's main
BulkSize == SellerPriceBatch + 1

\* a one-page listing of BulkSize offers, and a feed with a record for each
UploadBulkListing == <<[k \in 1..BulkSize |-> Decimal(1000 + k)]>>

UploadBulkFeed ==
    [k \in 1..BulkSize |->
        [Kod |-> PyInt(1000 + k), Kolichestvo |-> PyStr(<<"1", "2">>), Tsena |-> PlainPrice]]

UploadListings == {<<<<<<"7">>, <<"A">>>>>>, <<<<<<"A">>>>, <<<<"7">>>>>>, UploadBulkListing}

UploadRows ==
    MainRows \cup {[Kod |-> PyStr(<<"A">>), Kolichestvo |-> PyInt(3), Tsena |-> NoDigitPrice]}

\* short feeds, and for upload_prices the feed that matches the long listing
UploadFeeds(e) ==
    SeqsUpTo(UploadRows, MaxFeed) \cup (IF e = "upload_prices" THEN {UploadBulkFeed} ELSE {})

\* the arguments of the call: the feed and the campaign; the body starts with
\* get_offer_ids
InitUpload ==
    /\ IdleDivide
    /\ entry \in Uploads
    /\ module \in Modules
    /\ pc = "get_offer_ids"
    /\ campaign \in {Campaigns(module)[i] : i \in 1..Len(Campaigns(module))}
    /\ \E listing \in UploadListings : server = [c \in {campaign} |-> listing]
    /\ watch_remnants \in UploadFeeds(entry)
    /\ supplier = <<>>
    /\ offer_ids = <<>> /\ catalog0 = <<>> /\ calls = <<>>
    /\ now = 0
    /\ page = PyStr(<<>>) /\ product_list = <<>> /\ total = 0 /\ requests = 0
    /\ fetched = <<>>
    /\ stocks = <<>> /\ prices = <<>> /\ batches = <<>>
    /\ sent = <<>> /\ failed = NoFailure /\ printed = <<>> /\ outcome = "running"

\* upload_prices: prices = create_prices(watch_remnants, offer_ids) and the
\* list(divide(prices, ...)) of the for statement; with nothing to submit the
\* function returns prices
UploadCreatePrices ==
    /\ entry = "upload_prices"
    /\ pc = "create_prices"
    /\ LET r == create_prices(module, watch_remnants, offer_ids)
           d == ListDivide(r.value, UploadPriceBatch(module))
       IN  IF r.raised # ""
           THEN /\ Raise(r.raised, FALSE)
                /\ UNCHANGED <<prices, batches>>
           ELSE /\ prices' = r.value
                /\ batches' = d.value
                /\ pc' = IF d.value = <<>> THEN "done" ELSE "update_price"
                /\ outcome' = IF d.value = <<>> THEN "returned" ELSE outcome
                /\ UNCHANGED <<failed, printed>>
    /\ UNCHANGED <<module, entry, supplier, stocks, sent>>
    /\ UNCHANGED <<reconcileVars, divideVars, fetchVars>>

\* upload_stocks: stocks = create_stocks(watch_remnants, offer_ids[,
\* warehouse_id]) and the list(divide(stocks, ...)) of the for statement
UploadCreateStocks ==
    /\ entry = "upload_stocks"
    /\ pc = "create_stocks"
    /\ \E date \in IF module = "market" THEN ClockReads ELSE {now} :
         LET r == create_stocks(module, watch_remnants, offer_ids, Warehouse(campaign), date)
             d == ListDivide(r.value, UploadStockBatch(module))
         IN  /\ now' = date
             /\ offer_ids' = r.offer_ids
             /\ IF r.raised # ""
                THEN /\ Raise(r.raised, FALSE)
                     /\ UNCHANGED <<stocks, batches>>
                ELSE /\ stocks' = r.value
                     /\ batches' = d.value
                     /\ pc' = IF d.value = <<>> THEN AfterStocks ELSE "update_stocks"
                     /\ UNCHANGED <<failed, printed, outcome>>
    /\ UNCHANGED <<module, entry, watch_remnants, catalog0, calls, supplier, prices, sent>>
    /\ UNCHANGED <<divideVars, fetchVars>>

\* the count of a stock update: stock.get("stock"), or
\* stock.get("items")[0].get("count")
StockCount(m, stock) == IF m = "seller" THEN stock.stock ELSE stock.items[1].count

\* list(filter(lambda stock: (... != 0), stocks))
NotEmpty(m, all) == SelectSeq(all, LAMBDA stock : StockCount(m, stock) # 0)

\* upload_stocks: not_empty = ...; return not_empty, stocks
UploadStocksReturn ==
    /\ entry = "upload_stocks"
    /\ pc = "not_empty"
    /\ calls' = Append(calls, [fn |-> "upload_stocks", arg |-> watch_remnants, raised |-> "",
                               value |-> <<NotEmpty(module, stocks), stocks>>])
    /\ pc' = "done"
    /\ outcome' = "returned"
    /\ UNCHANGED <<module, entry, watch_remnants, offer_ids, catalog0, now>>
    /\ UNCHANGED <<supplier, stocks, prices, batches, sent, failed, printed>>
    /\ UNCHANGED <<divideVars, fetchVars>>

NextUpload ==
    \/ GetProductList
    \/ RequestFails
    \/ UploadCreatePrices
    \/ UploadCreateStocks
    \/ UpdateStocks
    \/ UpdatePrice
    \/ SubmissionFails
    \/ UploadStocksReturn

SpecUpload == InitUpload /\ [][NextUpload]_vars

-----------------------------------------------------------------------------
(* Reading the results *)


OfferOf(u) == IF module = "seller" THEN u.offer_id ELSE u.sku
QtyOf(u) == IF module = "seller" THEN u.stock ELSE u.items[1].count
PricedOffer(p) == IF module = "seller" THEN p.offer_id ELSE p.id

NoRepeats(xs) == \A i, j \in 1..Len(xs) : xs[i] = xs[j] => i = j

StockCalls == {i \in 1..Len(calls) : calls[i].fn = "create_stocks"}
PriceCalls == {i \in 1..Len(calls) : calls[i].fn = "create_prices"}

\* the updates of list value whose offer id is id
UpdatesFor(value, id) == {k \in 1..Len(value) : OfferOf(value[k]) = id}

InFeed(id) == \E k \in 1..Len(watch_remnants) : str(watch_remnants[k].Kod) = id

\* record k is the first of the feed with its code
FirstOfCode(k) == \A j \in 1..(k - 1) : str(watch_remnants[j].Kod) # str(watch_remnants[k].Kod)

IsDigitString(x) == x.t = "str" /\ x.v # <<>> /\ \A i \in 1..Len(x.v) : IsDigit(x.v[i])

-----------------------------------------------------------------------------
(* Claims about the reconciliation *)

\* C1: for a duplicate-free catalog C and any feed, create_stocks returns
\* exactly |C| stock updates and every member of C is the offer id of exactly
\* one of them.
C1_OnePerCatalogMember ==
    \A i \in StockCalls :
        NoRepeats(calls[i].arg) =>
            /\ calls[i].raised = ""
            /\ Len(calls[i].value) = Len(calls[i].arg)
            /\ \A a \in 1..Len(calls[i].arg) :
                   Cardinality(UpdatesFor(calls[i].value, calls[i].arg[a])) = 1

\* C1 witness: a two-member catalog reconciled against a feed that repeats a
\* listed code and carries an unlisted one
C1_Witness ==
    \E i \in StockCalls :
        /\ NoRepeats(calls[i].arg) /\ Len(calls[i].arg) = 2
        /\ Len(watch_remnants) >= 2
        /\ \E j, k \in 1..Len(watch_remnants) :
               /\ j # k
               /\ str(watch_remnants[j].Kod) = str(watch_remnants[k].Kod)
               /\ In(str(watch_remnants[j].Kod), calls[i].arg)
        /\ Len(calls[i].value) = 2

\* C3 as stated: every feed record whose code is in the catalog has a stock
\* update with quantity 100 for ">10", 0 for the withheld-one token "1", and N
\* for a literal non-negative integer string "N".
C3_QuantityRuleAsStated ==
    \A i \in StockCalls :
        \A k \in 1..Len(watch_remnants) :
            LET w == watch_remnants[k]
            IN  In(str(w.Kod), calls[i].arg) =>
                    \E u \in UpdatesFor(calls[i].value, str(w.Kod)) :
                        /\ w.Kolichestvo = PyStr(MoreThanTen) => QtyOf(calls[i].value[u]) = 100
                        /\ w.Kolichestvo = PyStr(One) => QtyOf(calls[i].value[u]) = 0
                        /\ IsDigitString(w.Kolichestvo)
                              => QtyOf(calls[i].value[u]) = DigitsValue(w.Kolichestvo.v)

\* C3 amended: in a duplicate-free catalog, the first feed record of each
\* listed code has exactly one stock update, with quantity 100 for ">10", 0 for
\* "1", and N for a literal non-negative integer string "N" other than "1".
C3_QuantityRule ==
    \A i \in StockCalls :
        NoRepeats(calls[i].arg) =>
            \A k \in 1..Len(watch_remnants) :
                LET w == watch_remnants[k]
                    us == UpdatesFor(calls[i].value, str(w.Kod))
                IN  (In(str(w.Kod), calls[i].arg) /\ FirstOfCode(k)) =>
                        /\ Cardinality(us) = 1
                        /\ \A u \in us :
                              /\ w.Kolichestvo = PyStr(MoreThanTen) => QtyOf(calls[i].value[u]) = 100
                              /\ w.Kolichestvo = PyStr(One) => QtyOf(calls[i].value[u]) = 0
                              /\ (IsDigitString(w.Kolichestvo) /\ w.Kolichestvo # PyStr(One))
                                    => QtyOf(calls[i].value[u]) = DigitsValue(w.Kolichestvo.v)

\* C3 witness: one feed holding ">10" and a literal integer for two listed
\* codes, both reconciled
C3_Witness ==
    \E i \in StockCalls :
        /\ NoRepeats(calls[i].arg)
        /\ \E j, k \in 1..Len(watch_remnants) :
               /\ watch_remnants[j].Kolichestvo = PyStr(MoreThanTen)
               /\ watch_remnants[k].Kolichestvo = PyStr(<<"1", "2">>)
               /\ \E u, v \in 1..Len(calls[i].value) :
                      /\ OfferOf(calls[i].value[u]) = str(watch_remnants[j].Kod)
                      /\ QtyOf(calls[i].value[u]) = 100
                      /\ OfferOf(calls[i].value[v]) = str(watch_remnants[k].Kod)
                      /\ QtyOf(calls[i].value[v]) = 12

\* C4: an offer id of the catalog that is the code of no feed record gets a
\* stock update with quantity 0 from create_stocks and no price update from
\* create_prices.
C4_AbsentFromFeed ==
    \A i \in 1..Len(calls) :
        \A a \in 1..Len(calls[i].arg) :
            LET id == calls[i].arg[a]
            IN  ~InFeed(id) =>
                    IF calls[i].fn = "create_stocks"
                    THEN /\ calls[i].raised = ""
                         /\ UpdatesFor(calls[i].value, id) # {}
                         /\ \A u \in UpdatesFor(calls[i].value, id) : QtyOf(calls[i].value[u]) = 0
                    ELSE \A p \in 1..Len(calls[i].value) : PricedOffer(calls[i].value[p]) # id

\* C4 witness: both functions have run on a catalog with an offer missing from
\* the feed, and a price update was emitted for another offer
C4_Witness ==
    \E i \in StockCalls, j \in PriceCalls :
        /\ \E a \in 1..Len(calls[i].arg) : ~InFeed(calls[i].arg[a])
        /\ \E a \in 1..Len(calls[j].arg) : ~InFeed(calls[j].arg[a])
        /\ calls[j].value # <<>>
        /\ \E u \in 1..Len(calls[i].value) : QtyOf(calls[i].value[u]) # 0

\* C10 as stated: the second run of create_stocks and create_prices on the
\* same feed and the same catalog list returns what the first run returned.
C10_SecondRunSame ==
    \A i, j \in 1..Len(calls) :
        (i < j /\ calls[i].fn = calls[j].fn) =>
            /\ calls[i].raised = calls[j].raised
            /\ calls[i].value = calls[j].value

-----------------------------------------------------------------------------
(* Claims about divide *)

\* C5: for n > 0 the chunks of divide(lst, n), concatenated in order, are lst;
\* every chunk but the last has length n and the last has length in 1..n.
C5_ChunksPartitionList ==
    n > 0 =>
        /\ gen \notin {"ValueError"}
        /\ \A k \in 1..Len(chunks) : Len(chunks[k]) >= 1 /\ Len(chunks[k]) <= n
        /\ \A k \in 1..(Len(chunks) - 1) : Len(chunks[k]) = n
        /\ Flatten(chunks) = SubSeq(lst, 1, Len(Flatten(chunks)))
        /\ gen = "finished" => Flatten(chunks) = lst

\* C5 witness: a list whose length is no multiple of n, fully consumed
C5_Witness ==
    /\ gen = "finished" /\ n = 2 /\ Len(lst) = 3
    /\ Len(chunks) = 2 /\ Len(chunks[2]) = 1
    /\ lst[1] # lst[2]

\* C6 as stated: for n <= 0 the generator fails with ValueError; it yields no
\* chunk and does not finish normally.
C6_NonPositiveSizeRaises ==
    (n <= 0 /\ gen # "created") => (gen = "ValueError" /\ chunks = <<>>)

-----------------------------------------------------------------------------
(* Claims about get_offer_ids *)

Listing == server[campaign]

\* C7 as stated: the catalog get_offer_ids returns holds every offer id the
\* listing serves and holds none more than once.
C7_CatalogCompleteNoRepeats ==
    (entry = "get_offer_ids" /\ outcome = "returned") =>
        /\ \A k \in 1..Len(Listing) : \A i \in 1..Len(Listing[k]) : In(Listing[k][i], offer_ids)
        /\ NoRepeats(offer_ids)

\* the number of the response that exhausts the listing: with a total count
\* the first after which all items have been served, with tokens the last page
ExhaustedAt ==
    IF module = "seller"
    THEN CHOOSE r \in 1..Len(Listing) :
            /\ Len(Flatten(SubSeq(Listing, 1, r))) = Len(Flatten(Listing))
            /\ \A q \in 1..(r - 1) : Len(Flatten(SubSeq(Listing, 1, q))) # Len(Flatten(Listing))
    ELSE Len(Listing)

C8_StopsWhenExhausted ==
    entry = "get_offer_ids" =>
        /\ requests <= ExhaustedAt
        /\ outcome = "returned" => requests = ExhaustedAt

\* C8: for a finite listing get_offer_ids issues finitely many page requests
\* and then ends; it returns at the first response that exhausts the listing
\* (accumulated count equal to the total, or no next-page token) and never
\* requests a page after that.
C8_FetchTerminates == [](C8_StopsWhenExhausted) /\ <>(pc = "done")

\* C8 witness: a two-page listing fetched to its end with two requests
C8_Witness ==
    /\ entry = "get_offer_ids" /\ outcome = "returned"
    /\ requests = 2 /\ Len(offer_ids) >= 2

-----------------------------------------------------------------------------
(* Claims about main *)

\* the submission calls of kind call that campaign c received, by position
SentTo(call, c) == {i \in 1..Len(sent) : sent[i].call = call /\ sent[i].campaign = c}

\* C2 as stated: when the catalog fetch and every submission succeed, at the
\* end of main a price update has been submitted for every feed record whose
\* code is in the fetched catalog, after the stock submissions of that run.
C2_PricesSubmitted ==
    (entry = "main" /\ pc = "done" /\ failed = NoFailure /\ outcome = "returned") =>
        \A f \in 1..Len(fetched) :
            /\ \A k \in 1..Len(watch_remnants) :
                  In(str(watch_remnants[k].Kod), fetched[f].catalog) =>
                      \E i \in SentTo("update_price", fetched[f].campaign) :
                          \E p \in 1..Len(sent[i].batch) :
                              PricedOffer(sent[i].batch[p]) = str(watch_remnants[k].Kod)
            /\ \A i \in SentTo("update_price", fetched[f].campaign) :
                  \A j \in SentTo("update_stocks", fetched[f].campaign) : j < i

\* a catalog page request or a batch submission failed with a timeout or a
\* connection failure
TransportFailure ==
    /\ entry = "main"
    /\ failed.exc \in {"ReadTimeout", "ConnectionError"}
    /\ failed.at \in {"get_offer_ids", "update_stocks", "update_price"}

\* C9 as stated: after such a failure no further submission call is made and
\* the failure reaches the caller of main as a failure.
C9_FailureSurfaced ==
    /\ [][TransportFailure => sent' = sent]_vars
    /\ [](TransportFailure => outcome = "raised")

\* C9 amended: after such a failure no further submission call is made in the
\* run; main catches the failure, prints a message and returns normally.
C9_FailureStopsRunAndIsPrinted ==
    /\ [][TransportFailure => sent' = sent]_vars
    /\ [](TransportFailure =>
            /\ pc = "done"
            /\ outcome = "returned"
            /\ printed = <<ExceptClause(failed.exc).message>>)

\* C9 witness: the second stock batch fails after the first was submitted,
\* and nothing is submitted after it
C9_Witness ==
    /\ TransportFailure
    /\ failed.at = "update_stocks"
    /\ Len(sent) = 1
    /\ batches # <<>>
    /\ pc = "done"

-----------------------------------------------------------------------------
(* Claims about prices without digits and about the caller's catalog *)

\* the amount of a price update is empty (seller.py, a str) or zero
\* (market.py, an int)
AmountEmptyOrZero(p) == IF module = "seller" THEN p.price = <<>> ELSE p.price.value = 0

\* feed record k is in list ids and its price normalizes to the empty string
EmptyPriceRecord(k, ids) ==
    /\ In(str(watch_remnants[k].Kod), ids)
    /\ price_conversion(watch_remnants[k].Tsena.v) = <<>>

\* C11 as stated: when a feed record in the catalog has a price that
\* normalizes to the empty string, create_prices of each module ends in an
\* error and emits no price update with an empty or zero amount.
C11_EmptyPriceIsError ==
    \A j \in PriceCalls :
        \A k \in 1..Len(watch_remnants) :
            EmptyPriceRecord(k, calls[j].arg) =>
                /\ calls[j].raised # ""
                /\ \A p \in 1..Len(calls[j].value) :
                       PricedOffer(calls[j].value[p]) = str(watch_remnants[k].Kod)
                           => ~AmountEmptyOrZero(calls[j].value[p])

\* the caller's catalog list as create_stocks call j left it: the argument of
\* the next call, or the list the caller holds now
CatalogAfter(j) == IF j < Len(calls) THEN calls[j + 1].arg ELSE offer_ids

\* C12 as stated: after create_stocks returns, the catalog list the caller
\* passed in holds exactly the offer ids it held before the call, so the
\* catalog stays equal to the snapshot taken at the start of the run.
C12_CatalogUnchanged ==
    /\ \A j \in StockCalls : CatalogAfter(j) = calls[j].arg
    /\ entry = "reconcile" => offer_ids = catalog0

-----------------------------------------------------------------------------
(* Claims about the size of the submitted batches *)

\* the limit of the endpoint a submission goes to: 100 stock updates and 900
\* price updates for seller.py, 2000 and 500 for market.py
EndpointLimit(m, call) ==
    IF m = "seller"
    THEN (IF call = "update_stocks" THEN SellerStockBatch ELSE SellerPriceBatch)
    ELSE (IF call = "update_stocks" THEN MarketStockBatch ELSE MarketUploadPriceBatch)

\* C13 as stated: no call of update_stocks or update_price carries more
\* updates than the limit of its endpoint, on any path that submits.
C13_BatchesWithinLimits ==
    \A i \in 1..Len(sent) : Len(sent[i].batch) <= EndpointLimit(module, sent[i].call)

====
